---- MODULE Spec2Model ----
(***************************************************************************)
(* Model of the Todo List API of src/main.py: one JSON backing file        *)
(* (db.json), the pydantic record types, load_db/save_db, and the five     *)
(* request handlers.                                                       *)
(*                                                                         *)
(* Values.  An Optional value is a sequence of length 0 (None / JSON null) *)
(* or 1 (the value).  A uuid.UUID is a positive integer; its JSON form,    *)
(* str(uuid), is the record [hex |-> n].                                   *)
(***************************************************************************)
EXTENDS Integers, Sequences, FiniteSets

\* How many identifiers uuid.uuid4() hands out in one run of the server;
\* uuid4 is modelled as never repeating a value (nextId counts them).
MaxIds == 3

\* The same, in a run of two server processes.
MaxRaceIds == 2

None == <<>>
Some(v) == <<v>>

Fields == {"title", "description", "completed"}

HTTP_200_OK == 200
HTTP_201_CREATED == 201
HTTP_204_NO_CONTENT == 204
HTTP_404_NOT_FOUND == 404
\* FastAPI's answers: a body that fails TodoCreate/TodoUpdate validation,
\* and an exception that leaves a handler.
HTTP_422_UNPROCESSABLE == 422
HTTP_500_INTERNAL == 500

VARIABLES
    db,        \* the backing file DB_FILE
    nextId,    \* the next value uuid.uuid4() returns
    last,      \* the last response sent
    deleted,   \* identifiers whose DELETE has returned 204
    pend,      \* per worker process: the handler between load_db and save_db
    race       \* set by a save that overwrote saves made since its own load

vars == <<db, nextId, last, deleted, pend, race>>

UUIDs == 1..MaxIds

----------------------------------------------------------------------------
(* Request bodies as they arrive: the JSON object's keys (present) and the *)
(* value under each of them (None for a key that is absent or null).       *)

TitleInputs == {None, Some(""), Some("a"), Some("b")}
DescriptionInputs == {None}
CompletedInputs == {None, Some(TRUE), Some(FALSE)}

Bodies ==
    { b \in [present : SUBSET Fields, title : TitleInputs,
             description : DescriptionInputs, completed : CompletedInputs] :
        \A f \in Fields \ b.present : b[f] = None }

\* str with min_length=1
NonEmptyStr(t) == Len(t) = 1 /\ t[1] /= ""

----------------------------------------------------------------------------
(* The pydantic models.                                                    *)

\* TodoItem(**item) for a JSON object: does validation pass?
TodoItemValid(item) ==
    /\ NonEmptyStr(item.title)
    /\ Len(item.completed) = 1

\* TodoItem(**item): the validated record, its id parsed back to a UUID.
TodoItem(item) ==
    [id |-> item.id.hex, title |-> item.title,
     description |-> item.description, completed |-> item.completed]

\* Mutant: the title's min_length=1 dropped.
TodoCreateValid_no_min_length(b) ==
    /\ "title" \in b.present
    /\ Len(b.title) = 1
    /\ ("completed" \in b.present => Len(b.completed) = 1)

\* TodoCreate: title required and non-empty, completed a bool when given.
TodoCreateValid(b) ==
    /\ "title" \in b.present
    /\ NonEmptyStr(b.title)
    /\ ("completed" \in b.present => Len(b.completed) = 1)

\* todo_create.model_dump(): every field, defaults filled in.
TodoCreate(b) ==
    [title |-> b.title,
     description |-> b.description,
     completed |-> IF "completed" \in b.present THEN b.completed ELSE Some(FALSE)]

\* TodoUpdate: every field Optional; a title that is a string is non-empty.
TodoUpdateValid(b) ==
    "title" \in b.present => (b.title = None \/ NonEmptyStr(b.title))

\* Mutant: model_dump() without exclude_unset, every field with its default.
model_dump_all(b) == [f \in Fields |-> b[f]]

\* todo_update.model_dump(exclude_unset=True): the fields the body set.
model_dump_exclude_unset(b) == [f \in b.present |-> b[f]]

\* current_todo.model_copy(update=update_data): no validation.
model_copy(cur, upd) ==
    [f \in DOMAIN cur |-> IF f \in DOMAIN upd THEN upd[f] ELSE cur[f]]

\* todo.model_dump(mode='json'): the UUID becomes its string.
model_dump_json(todo) ==
    [id |-> [hex |-> todo.id], title |-> todo.title,
     description |-> todo.description, completed |-> todo.completed]

----------------------------------------------------------------------------
(* The store.  A file is absent, or holds text that is not JSON (an empty  *)
(* file), or holds a JSON list of objects.                                 *)

NoFile == [exists |-> FALSE, json |-> FALSE, data |-> <<>>]
EmptyFile == [exists |-> TRUE, json |-> FALSE, data |-> <<>>]

\* load_db(): raised is TRUE when an exception leaves the function.
load_db(f) ==
    IF ~f.exists \/ ~f.json
    THEN [raised |-> FALSE, todos |-> <<>>]
    ELSE IF \E i \in 1..Len(f.data) : ~TodoItemValid(f.data[i])
    THEN [raised |-> TRUE, todos |-> <<>>]
    ELSE [raised |-> FALSE,
          todos |-> [i \in 1..Len(f.data) |-> TodoItem(f.data[i])]]

\* save_db(todos): the file's new content.
save_db(todos) ==
    [exists |-> TRUE, json |-> TRUE,
     data |-> [i \in 1..Len(todos) |-> model_dump_json(todos[i])]]

----------------------------------------------------------------------------
(* The handlers' list operations.                                          *)

\* todos.append(new_todo) with new_todo = TodoItem(id=uuid4(), **dump)
new_todo(id, tc) ==
    [id |-> id, title |-> tc.title, description |-> tc.description,
     completed |-> tc.completed]

\* the index of the first todo with this id, 0 when there is none
find(todos, id) ==
    IF \E i \in 1..Len(todos) : todos[i].id = id
    THEN CHOOSE i \in 1..Len(todos) :
            /\ todos[i].id = id
            /\ \A j \in 1..(i - 1) : todos[j].id /= id
    ELSE 0

\* Mutant: the scan stops at the match and drops the rest of the list.
RECURSIVE without_from(_, _)
without_from(todos, id) ==
    IF todos = <<>> THEN <<>>
    ELSE IF Head(todos).id /= id
         THEN <<Head(todos)>> \o without_from(Tail(todos), id)
         ELSE <<>>

\* [todo for todo in todos if todo.id != todo_id]
RECURSIVE without(_, _)
without(todos, id) ==
    IF todos = <<>> THEN <<>>
    ELSE IF Head(todos).id /= id
         THEN <<Head(todos)>> \o without(Tail(todos), id)
         ELSE without(Tail(todos), id)

\* create_todo: the list handed to save_db
create_saved(todos, id, b) == Append(todos, new_todo(id, TodoCreate(b)))

\* update_todo: the list handed to save_db, todos[index] replaced
update_saved(todos, i, b) ==
    [todos EXCEPT ![i] = model_copy(todos[i], model_dump_exclude_unset(b))]

\* What the client gets back: the endpoint, the status code, the items of the body.
Response(op, status, body) == [op |-> op, status |-> status, body |-> body]

\* What one run of a handler does: the file afterwards, the response, and the
\* list it handed to save_db (<<>> when it did not save, else <<todos>>).
Outcome(f, resp, saved) == [db |-> f, resp |-> resp, saved |-> saved]

----------------------------------------------------------------------------
(* The handlers, as functions of the file they find (and, for create, of   *)
(* the identifier uuid4 returns).                                          *)

\* POST /todos/
create_run(f, id, b) ==
    IF ~TodoCreateValid(b)
    THEN Outcome(f, Response("create", HTTP_422_UNPROCESSABLE, <<>>), <<>>)
    ELSE LET l == load_db(f) IN
         IF l.raised
         THEN Outcome(f, Response("create", HTTP_500_INTERNAL, <<>>), <<>>)
         ELSE LET todos == create_saved(l.todos, id, b) IN
              Outcome(save_db(todos),
                      Response("create", HTTP_201_CREATED, <<todos[Len(todos)]>>),
                      <<todos>>)

\* GET /todos/
list_run(f) ==
    LET l == load_db(f) IN
    IF l.raised
    THEN Outcome(f, Response("list", HTTP_500_INTERNAL, <<>>), <<>>)
    ELSE Outcome(f, Response("list", HTTP_200_OK, l.todos), <<>>)

\* GET /todos/{todo_id}
get_run(f, id) ==
    LET l == load_db(f)
        i == find(l.todos, id)
    IN
    IF l.raised
    THEN Outcome(f, Response("get", HTTP_500_INTERNAL, <<>>), <<>>)
    ELSE IF i = 0
    THEN Outcome(f, Response("get", HTTP_404_NOT_FOUND, <<>>), <<>>)
    ELSE Outcome(f, Response("get", HTTP_200_OK, <<l.todos[i]>>), <<>>)

\* PUT /todos/{todo_id}
update_run(f, id, b) ==
    IF ~TodoUpdateValid(b)
    THEN Outcome(f, Response("update", HTTP_422_UNPROCESSABLE, <<>>), <<>>)
    ELSE LET l == load_db(f)
             i == find(l.todos, id)
         IN
         IF l.raised
         THEN Outcome(f, Response("update", HTTP_500_INTERNAL, <<>>), <<>>)
         ELSE IF i = 0
         THEN Outcome(f, Response("update", HTTP_404_NOT_FOUND, <<>>), <<>>)
         ELSE LET todos == update_saved(l.todos, i, b) IN
              Outcome(save_db(todos),
                      Response("update", HTTP_200_OK, <<todos[i]>>),
                      <<todos>>)

\* DELETE /todos/{todo_id}
delete_run(f, id) ==
    LET l == load_db(f)
        updated_todos == without(l.todos, id)
    IN
    IF l.raised
    THEN Outcome(f, Response("delete", HTTP_500_INTERNAL, <<>>), <<>>)
    ELSE IF Len(l.todos) = Len(updated_todos)
    THEN Outcome(f, Response("delete", HTTP_404_NOT_FOUND, <<>>), <<>>)
    ELSE Outcome(save_db(updated_todos),
                 Response("delete", HTTP_204_NO_CONTENT, <<>>),
                 <<updated_todos>>)

----------------------------------------------------------------------------
(* One server process: a handler has no await between load_db and save_db, *)
(* so the event loop runs each request from load to save in one step.      *)

Workers == {"w1", "w2"}

\* pend[w] and race are <<>> or hold one record.
Idle == <<>>
NoRace == <<>>

Init ==
    /\ db \in {NoFile, EmptyFile}
    /\ nextId = 1
    /\ last = Response("none", 0, <<>>)
    /\ deleted = {}
    /\ pend = [w \in Workers |-> Idle]
    /\ race = NoRace

create_todo(b) ==
    LET r == create_run(db, nextId, b) IN
    /\ r.saved /= <<>> => nextId <= MaxIds
    /\ db' = r.db
    /\ last' = r.resp
    /\ nextId' = IF r.saved /= <<>> THEN nextId + 1 ELSE nextId
    /\ UNCHANGED <<deleted, pend, race>>

get_all_todos ==
    /\ last' = list_run(db).resp
    /\ UNCHANGED <<db, nextId, deleted, pend, race>>

get_todo_by_id(id) ==
    /\ last' = get_run(db, id).resp
    /\ UNCHANGED <<db, nextId, deleted, pend, race>>

update_todo(id, b) ==
    LET r == update_run(db, id, b) IN
    /\ db' = r.db
    /\ last' = r.resp
    /\ UNCHANGED <<nextId, deleted, pend, race>>

delete_todo(id) ==
    LET r == delete_run(db, id) IN
    /\ db' = r.db
    /\ last' = r.resp
    /\ deleted' = IF r.saved /= <<>> THEN deleted \cup {id} ELSE deleted
    /\ UNCHANGED <<nextId, pend, race>>

Next ==
    \/ \E b \in Bodies : create_todo(b)
    \/ get_all_todos
    \/ \E id \in UUIDs : get_todo_by_id(id)
    \/ \E id \in UUIDs, b \in Bodies : update_todo(id, b)
    \/ \E id \in UUIDs : delete_todo(id)

Spec == Init /\ [][Next]_vars

----------------------------------------------------------------------------
(* Two server processes on the same DB_FILE (uvicorn --workers 2): each    *)
(* runs its handler from load_db to just before save_db in one step, and   *)
(* save_db in a later one; nothing locks the file in between.              *)

RaceCreateBody ==
    [present |-> {"title", "description"}, title |-> Some("a"),
     description |-> Some("d"), completed |-> None]

OnlyCompletedTrue ==
    [present |-> {"completed"}, title |-> None, description |-> None,
     completed |-> Some(TRUE)]

RaceIds == 1..MaxRaceIds

RaceRequests ==
    {[op |-> "create", id |-> 0, b |-> RaceCreateBody]}
    \cup {[op |-> "update", id |-> id, b |-> OnlyCompletedTrue] : id \in RaceIds}
    \cup {[op |-> "delete", id |-> id, b |-> <<>>] : id \in RaceIds}

\* the handler the request is routed to
run(f, nid, req) ==
    CASE req.op = "create" -> create_run(f, nid, req.b)
      [] req.op = "update" -> update_run(f, req.id, req.b)
      [] req.op = "delete" -> delete_run(f, req.id)

\* Mutant: the handler computes what it writes from the file as it is when
\* it saves, not from the list it loaded.
to_save_reloaded(p, f) == run(f, p.nid, p.req).db

\* What the handler writes: computed from the list it loaded (p.out), whatever
\* the file (f) holds by now.
to_save(p, f) == p.out.db

\* The handler up to save_db; a handler that does not save answers at once.
worker_load(w, req) ==
    LET r == run(db, nextId, req) IN
    /\ pend[w] = Idle
    /\ (req.op = "create" /\ r.saved /= <<>>) => nextId <= MaxRaceIds
    /\ IF r.saved = <<>>
       THEN UNCHANGED <<nextId, pend>>
       ELSE /\ pend' = [pend EXCEPT ![w] =
                          <<[req |-> req, nid |-> nextId, snap |-> db,
                             out |-> r, lost |-> {}]>>]
            /\ nextId' = IF req.op = "create" THEN nextId + 1 ELSE nextId
    /\ race' = NoRace
    /\ UNCHANGED <<db, last, deleted>>

\* save_db and the response.
worker_save(w) ==
    /\ pend[w] /= Idle
    /\ LET p == pend[w][1] IN
       /\ db' = to_save(p, db)
       /\ pend' = [v \in Workers |->
                     IF v = w \/ pend[v] = Idle THEN Idle
                     ELSE <<[pend[v][1] EXCEPT !.lost = @ \cup {p.out.resp}]>>]
       /\ race' = IF p.lost = {} THEN NoRace
                  ELSE <<[req |-> p.req, nid |-> p.nid, snap |-> p.snap,
                          lost |-> p.lost]>>
    /\ UNCHANGED <<nextId, last, deleted>>

NextWorkers ==
    \/ \E w \in Workers, req \in RaceRequests : worker_load(w, req)
    \/ \E w \in Workers : worker_save(w)

SpecWorkers == Init /\ [][NextWorkers]_vars

----------------------------------------------------------------------------
(* The stored collection, as a reader of the file sees it.                 *)

StoredIds(f) == { f.data[i].id.hex : i \in 1..Len(f.data) }

StoredIndex(f, id) == CHOOSE i \in 1..Len(f.data) : f.data[i].id.hex = id

\* save then load gives the collection back
RoundTrip(todos) ==
    LET l == load_db(save_db(todos)) IN ~l.raised /\ l.todos = todos

----------------------------------------------------------------------------
\* C1: in every reachable state the stored items have pairwise different
\* identifiers and each title is a non-empty string.
C1_UniqueIdsNonEmptyTitles ==
    /\ \A i, j \in 1..Len(db.data) :
          i /= j => db.data[i].id /= db.data[j].id
    /\ \A i \in 1..Len(db.data) : NonEmptyStr(db.data[i].title)

\* C2: an Update of a stored identifier that succeeds answers 200 with the
\* updated record and changes the stored collection only in the matched
\* record: supplied fields take the supplied values, omitted fields and the
\* identifier keep theirs; position, length and the other records are kept.
C2_UpdateFrame ==
    \A id \in StoredIds(db), b \in Bodies :
        LET r == update_run(db, id, b)
            i == StoredIndex(db, id)
        IN
        r.resp.status < 400 =>
            /\ r.resp.status = HTTP_200_OK
            /\ Len(r.db.data) = Len(db.data)
            /\ \A j \in 1..Len(db.data) : j /= i => r.db.data[j] = db.data[j]
            /\ r.db.data[i].id = db.data[i].id
            /\ \A f \in Fields :
                  r.db.data[i][f] = IF f \in b.present THEN b[f]
                                    ELSE db.data[i][f]
            /\ Len(r.resp.body) = 1
            /\ r.resp.body[1].id = id
            /\ \A f \in Fields : r.resp.body[1][f] = r.db.data[i][f]

\* C2 witness: an Update has answered 200 for the middle one of three stored
\* records, which now has title "b" and completed true.
C2_Witness ==
    /\ last.op = "update" /\ last.status = HTTP_200_OK
    /\ Len(db.data) = 3
    /\ db.data[2].id.hex = last.body[1].id
    /\ db.data[2].title = Some("b")
    /\ db.data[2].completed = Some(TRUE)
    /\ last.body[1].title = Some("b")

\* C3: for an identifier that is not stored, Get, Update (with a well-formed
\* body) and Delete answer 404 and leave the stored collection as it was.
C3_NotFoundNoWrite ==
    \A id \in UUIDs \ StoredIds(db) :
        /\ get_run(db, id).resp.status = HTTP_404_NOT_FOUND
        /\ get_run(db, id).db = db
        /\ delete_run(db, id).resp.status = HTTP_404_NOT_FOUND
        /\ delete_run(db, id).db = db
        /\ \A b \in Bodies :
              TodoUpdateValid(b) =>
                  /\ update_run(db, id, b).resp.status = HTTP_404_NOT_FOUND
                  /\ update_run(db, id, b).db = db

\* C4: a Delete of a stored identifier that succeeds answers 204 and removes
\* exactly the record with that identifier: the length drops by one and the
\* other records stay, unmodified and in their order.
C4_DeleteExactlyOne ==
    \A id \in StoredIds(db) :
        LET r == delete_run(db, id)
            i == StoredIndex(db, id)
        IN
        r.resp.status < 400 =>
            /\ r.resp.status = HTTP_204_NO_CONTENT
            /\ r.resp.body = <<>>
            /\ Len(r.db.data) = Len(db.data) - 1
            /\ \A j \in 1..Len(r.db.data) :
                  r.db.data[j] = db.data[IF j < i THEN j ELSE j + 1]
            /\ id \notin StoredIds(r.db)

\* C4 witness: a Delete has answered 204 for the second of three records;
\* the first and the third are stored, in that order.
C4_Witness ==
    /\ last.op = "delete" /\ last.status = HTTP_204_NO_CONTENT
    /\ deleted = {2}
    /\ Len(db.data) = 2
    /\ db.data[1].id.hex = 1 /\ db.data[2].id.hex = 3

\* C5: Create with a non-empty title (and a well-formed body) answers 201
\* with an item whose identifier no stored item has and whose fields are the
\* request's (description null, completed false when omitted), and the
\* stored collection becomes the prior one with that item appended.
C5_CreateAppends ==
    \A b \in Bodies :
        TodoCreateValid(b) =>
            LET r == create_run(db, nextId, b) IN
            /\ r.resp.status = HTTP_201_CREATED
            /\ Len(r.resp.body) = 1
            /\ r.resp.body[1].id \notin StoredIds(db)
            /\ r.resp.body[1].title = b.title
            /\ r.resp.body[1].description = b.description
            /\ r.resp.body[1].completed =
                  IF "completed" \in b.present THEN b.completed ELSE Some(FALSE)
            /\ r.db.data = Append(db.data, model_dump_json(r.resp.body[1]))

\* C6: load_db returns the empty list, raising nothing, whenever the file is
\* absent, is not JSON, or holds a record that is not a valid item.
C6_LoadEmptyOnBadFile ==
    (\/ ~db.exists
     \/ ~db.json
     \/ \E i \in 1..Len(db.data) : ~TodoItemValid(db.data[i]))
        => (~load_db(db).raised /\ load_db(db).todos = <<>>)

\* C7: lifecycle of one identifier.  After its Create, a Get answers 200 with
\* the created item; an Update of only completed=true then answers 200 with
\* the same title and completed true, and so does a Get; a Delete then
\* answers 204 and a Get 404.  Once a Delete of an identifier has answered
\* 204, every later Get, Update and Delete of it answers 404.
C7_Lifecycle ==
    /\ (last.op = "create" /\ last.status = HTTP_201_CREATED) =>
          LET id == last.body[1].id
              u == update_run(db, id, OnlyCompletedTrue)
              d == delete_run(u.db, id)
          IN
          /\ get_run(db, id).resp = Response("get", HTTP_200_OK, last.body)
          /\ u.resp.status = HTTP_200_OK
          /\ u.resp.body[1].title = last.body[1].title
          /\ u.resp.body[1].completed = Some(TRUE)
          /\ get_run(u.db, id).resp = Response("get", HTTP_200_OK, u.resp.body)
          /\ d.resp.status = HTTP_204_NO_CONTENT
          /\ get_run(d.db, id).resp.status = HTTP_404_NOT_FOUND
    /\ \A id \in deleted :
          /\ get_run(db, id).resp.status = HTTP_404_NOT_FOUND
          /\ delete_run(db, id).resp.status = HTTP_404_NOT_FOUND
          /\ \A b \in Bodies :
                TodoUpdateValid(b) =>
                    update_run(db, id, b).resp.status = HTTP_404_NOT_FOUND

\* C8: Create with a missing, null or empty title answers 422 without
\* loading or saving: the stored collection is as before and nothing is
\* handed to save_db.
C8_CreateRejected ==
    \A b \in Bodies :
        ~("title" \in b.present /\ NonEmptyStr(b.title)) =>
            LET r == create_run(db, nextId, b) IN
            /\ r.resp = Response("create", HTTP_422_UNPROCESSABLE, <<>>)
            /\ r.db = db
            /\ r.saved = <<>>

\* C8 witness: a Create has been answered 422 while two items are stored and
\* the next identifier is still the third.
C8_Witness ==
    /\ last.op = "create" /\ last.status = HTTP_422_UNPROCESSABLE
    /\ Len(db.data) = 2
    /\ nextId = 3

\* C9: every collection a handler hands to save_db is returned, equal in
\* content and order, by a load_db that follows.
C9_RoundTrip ==
    /\ \A b \in Bodies :
          LET r == create_run(db, nextId, b) IN
          r.saved /= <<>> => RoundTrip(r.saved[1])
    /\ \A id \in UUIDs, b \in Bodies :
          LET r == update_run(db, id, b) IN
          r.saved /= <<>> => RoundTrip(r.saved[1])
    /\ \A id \in UUIDs :
          LET r == delete_run(db, id) IN
          r.saved /= <<>> => RoundTrip(r.saved[1])

\* C10: when a request saves after another request has saved since its own
\* load, the file holds exactly what the later request computed from the
\* collection it loaded: the earlier request's change is gone, and an item
\* whose Create was answered 201 in between is not stored.
C10_LostUpdate ==
    race /= NoRace =>
        /\ db = run(race[1].snap, race[1].nid, race[1].req).db
        /\ \A e \in race[1].lost :
              e.op = "create" => e.body[1].id \notin StoredIds(db)

\* C10 witness: a Create was answered 201 and the item it returned is not in
\* the file after the other process's save.
C10_Witness ==
    /\ race /= NoRace
    /\ \E e \in race[1].lost :
          /\ e.op = "create" /\ e.status = HTTP_201_CREATED
          /\ e.body[1].id \notin StoredIds(db)

====
